---- MODULE Spec2Model ----
(***************************************************************************)
(* reminder-for-discord: a run of main().  The repository holds two        *)
(* versions of the program, src/main.go and src/unnamed/part_000; the      *)
(* variable `build` says which one runs.  Instants are seconds since       *)
(* 1970-01-01T00:00:00Z, as in Go's time.Time.Unix().                      *)
(***************************************************************************)
EXTENDS Integers, Sequences, FiniteSets

VARIABLES build, pc, credentials, now, tomorrowStart, tomorrowEnd,
          events, i, calls, logs

vars == <<build, pc, credentials, now, tomorrowStart, tomorrowEnd,
          events, i, calls, logs>>

\* Longest event list the calendar returns in the model.
MaxEvents == 2

(***************************************************************************)
(* package time: the proleptic Gregorian calendar                          *)
(***************************************************************************)
secondsPerMinute == 1 * 60
secondsPerHour == 60 * secondsPerMinute
secondsPerDay == 24 * secondsPerHour

\* time.FixedZone("Asia/Tokyo", 9*60*60); time.LoadLocation("Asia/Tokyo")
\* resolves to the same offset for every instant after 1951.
location == 9 * 60 * 60

\* The zone of time.Parse("2006-01-02", ...): no zone in the layout, so UTC.
UTC == 0 * 60 * 60

isLeap(year) == year % 4 = 0 /\ (year % 100 # 0 \/ year % 400 = 0)

\* daysBefore[m] of package time: days in a non-leap year before month m+1.
daysBefore == <<0, 31, 59, 90, 120, 151, 181, 212, 243, 273, 304, 334, 365>>

daysIn(month, year) ==
    IF month = 2 /\ isLeap(year) THEN 29
    ELSE daysBefore[month + 1] - daysBefore[month]

\* Leap years in 1..n.
leapsThrough(n) == (n \div 4) - (n \div 100) + (n \div 400)

\* Days from 1970-01-01 to January 1st of `year`.
daysSinceEpoch(year) ==
    365 * (year - 1970) + leapsThrough(year - 1) - leapsThrough(1969)

\* time.Date(year, month, day, hour, min, sec, 0, loc).Unix(), loc a fixed
\* offset.  `day` is not range-checked: day 32 of January is February 1st.
Date(year, month, day, hour, min, sec, offset) ==
    LET d == daysSinceEpoch(year) + daysBefore[month]
             + (IF isLeap(year) /\ month >= 3 THEN 1 ELSE 0) + (day - 1)
    IN  d * secondsPerDay + hour * secondsPerHour + min * secondsPerMinute
        + sec - offset

\* Days from 1970-01-01 to 2001-01-01, the first day of a 400-year cycle.
daysTo2001 == 365 * 31 + 8
daysPer400Years == 365 * 400 + 97
daysPer100Years == 365 * 100 + 24
daysPer4Years == 365 * 4 + 1

\* absDate: the year and the day of the year (from 0) of the day d0 days
\* after 2001-01-01, by 400-, 100-, 4- and 1-year cycles.
yearDay[d0 \in Int] ==
    LET n400 == d0 \div daysPer400Years
        d1   == d0 % daysPer400Years
        q100 == d1 \div daysPer100Years
        n100 == q100 - (q100 \div 4)
        d2   == d1 - daysPer100Years * n100
        n4   == d2 \div daysPer4Years
        d3   == d2 % daysPer4Years
        q1   == d3 \div 365
        n1   == q1 - (q1 \div 4)
    IN  [year |-> 2001 + 400 * n400 + 100 * n100 + 4 * n4 + n1,
         yday |-> d3 - 365 * n1]

\* absDate: the month and the day of the month of day `yday` of a year.
monthDay[yday \in 0..365, leap \in BOOLEAN] ==
    IF leap /\ yday = 31 + 29 - 1 THEN [month |-> 2, day |-> 29]
    ELSE LET d == IF leap /\ yday > 31 + 29 - 1 THEN yday - 1 ELSE yday
             m == d \div 31
         IN  IF d >= daysBefore[m + 2]
             THEN [month |-> m + 2, day |-> d - daysBefore[m + 2] + 1]
             ELSE [month |-> m + 1, day |-> d - daysBefore[m + 1] + 1]

\* Time.Date() and Time.Clock() of t.In(loc): the civil fields of instant t
\* at a fixed offset.
civil(t, offset) ==
    LET abs == t + offset
        yd  == yearDay[(abs \div secondsPerDay) - daysTo2001]
        md  == monthDay[yd.yday, isLeap(yd.year)]
        rem == abs % secondsPerDay
    IN  [year |-> yd.year, month |-> md.month, day |-> md.day,
         hour |-> rem \div secondsPerHour,
         min  |-> (rem % secondsPerHour) \div secondsPerMinute,
         sec  |-> rem % secondsPerMinute]

(***************************************************************************)
(* Strings that carry a time.  A string is a record: `text` tells what the  *)
(* characters are (nothing, an RFC 3339 timestamp, a YYYY-MM-DD date, or    *)
(* something else) and `f` holds the digits of its fields as written.       *)
(***************************************************************************)
EmptyString == [text |-> "", f |-> <<>>]
Garbage == [text |-> "garbage", f |-> <<>>]
RFC3339String(c, zone) ==
    [text |-> "rfc3339",
     f |-> <<c.year, c.month, c.day, c.hour, c.min, c.sec, zone>>]
DateString(c) == [text |-> "date", f |-> <<c.year, c.month, c.day>>]

validDate(year, month, day) ==
    month \in 1..12 /\ day >= 1 /\ day <= daysIn(month, year)

\* time.Parse(time.RFC3339, s): the instant, or an error when s is not in
\* the layout or a field is out of range.
ParseRFC3339(s) ==
    IF s.text = "rfc3339" /\ validDate(s.f[1], s.f[2], s.f[3])
       /\ s.f[4] \in 0..23 /\ s.f[5] \in 0..59 /\ s.f[6] \in 0..59
    THEN [err |-> FALSE,
          t |-> Date(s.f[1], s.f[2], s.f[3], s.f[4], s.f[5], s.f[6], s.f[7])]
    ELSE [err |-> TRUE, t |-> 0]

\* ParseDate with the date read in UTC+9, as time.ParseInLocation would.
ParseDateInLocation(s) ==
    IF s.text = "date" /\ validDate(s.f[1], s.f[2], s.f[3])
    THEN [err |-> FALSE,
          t |-> Date(s.f[1], s.f[2], s.f[3], 0, 0, 0, location)]
    ELSE [err |-> TRUE, t |-> 0]

\* time.Parse("2006-01-02", s): midnight UTC of the date.
ParseDate(s) ==
    IF s.text = "date" /\ validDate(s.f[1], s.f[2], s.f[3])
    THEN [err |-> FALSE, t |-> Date(s.f[1], s.f[2], s.f[3], 0, 0, 0, UTC)]
    ELSE [err |-> TRUE, t |-> 0]

\* t.In(location).Format("2006-01-02 15:04"): the fields the layout prints.
Format(t) ==
    LET c == civil(t, location)
    IN  <<c.year, c.month, c.day, c.hour, c.min>>

(***************************************************************************)
(* main: the target window                                                 *)
(***************************************************************************)
\* TomorrowStart with the date of `now` taken in UTC, not in UTC+9.
TomorrowStartFromUTCDate(t) ==
    LET c == civil(t, UTC)
    IN  Date(c.year, c.month, c.day + 1, 0, 0, 0, location)

\* time.Date(now.Year(), now.Month(), now.Day()+1, 0, 0, 0, 0, location)
TomorrowStart(t) ==
    LET c == civil(t, location)
    IN  Date(c.year, c.month, c.day + 1, 0, 0, 0, location)

\* tomorrowStart.Add(24 * time.Hour)
TomorrowEnd(start) == start + 24 * secondsPerHour

\* InWindow with the bounds included.
InWindowInclusive(startTime, wStart, wEnd) ==
    startTime >= wStart /\ startTime <= wEnd

\* startTime.After(tomorrowStart) && startTime.Before(tomorrowEnd)
InWindow(startTime, wStart, wEnd) == startTime > wStart /\ startTime < wEnd

(***************************************************************************)
(* main: one event of the loop                                             *)
(***************************************************************************)
\* The text of the message, line by line.  The Japanese labels of the source
\* are written in ASCII: "Title: " is "イベント名: ", "Location: " is "場所: ",
\* "Start: " is "開始時間: ", "End: " is "終了時間: " and "AllDay" is
\* "終日イベント".  A line is its label, the string printed by %s after it, and
\* the fields of a formatted time printed after it (<<>> when there is none).
Line(label, str, time) == [label |-> label, str |-> str, time |-> time]

\* Message with the description line that the log output has.
MessageWithDescription(event, isAllDay, startTime, endTime) ==
    IF isAllDay
    THEN << Line("@here", "", <<>>),
            Line("Title: ", event.Summary, <<>>),
            Line("Description: ", event.Description, <<>>),
            Line("Location: ", event.Location, <<>>),
            Line("AllDay", "", <<>>) >>
    ELSE << Line("@here", "", <<>>),
            Line("Title: ", event.Summary, <<>>),
            Line("Description: ", event.Description, <<>>),
            Line("Location: ", event.Location, <<>>),
            Line("Start: ", "", Format(startTime)),
            Line("End: ", "", Format(endTime)) >>

\* fmt.Sprintf of the notification message.
Message(event, isAllDay, startTime, endTime) ==
    IF isAllDay
    THEN << Line("@here", "", <<>>),
            Line("Title: ", event.Summary, <<>>),
            Line("Location: ", event.Location, <<>>),
            Line("AllDay", "", <<>>) >>
    ELSE << Line("@here", "", <<>>),
            Line("Title: ", event.Summary, <<>>),
            Line("Location: ", event.Location, <<>>),
            Line("Start: ", "", Format(startTime)),
            Line("End: ", "", Format(endTime)) >>

Skip(line) ==
    [skip |-> line, startTime |-> 0, endTime |-> 0, isAllDay |-> FALSE]

\* Resolve without the test of the error of the end timestamp's parse.
ResolveIgnoringEndError(event) ==
    IF event.Start.DateTime # EmptyString
    THEN LET s == ParseRFC3339(event.Start.DateTime)
             e == ParseRFC3339(event.End.DateTime)
         IN  IF s.err THEN Skip("Unable to parse event DateTime")
             ELSE [skip |-> "", startTime |-> s.t, endTime |-> e.t,
                   isAllDay |-> FALSE]
    ELSE IF event.Start.Date # EmptyString
    THEN LET s == ParseDate(event.Start.Date)
             e == ParseDate(event.End.Date)
         IN  IF s.err THEN Skip("Unable to parse event Start Date")
             ELSE IF e.err THEN Skip("Unable to parse event End Date")
             ELSE [skip |-> "", startTime |-> s.t, endTime |-> e.t,
                   isAllDay |-> TRUE]
    ELSE Skip("No valid start time found for event")

\* Resolve with the date-only marker tested before the timestamp marker.
ResolveDateFirst(event) ==
    IF event.Start.Date # EmptyString
    THEN LET s == ParseDate(event.Start.Date)
             e == ParseDate(event.End.Date)
         IN  IF s.err THEN Skip("Unable to parse event Start Date")
             ELSE IF e.err THEN Skip("Unable to parse event End Date")
             ELSE [skip |-> "", startTime |-> s.t, endTime |-> e.t,
                   isAllDay |-> TRUE]
    ELSE IF event.Start.DateTime # EmptyString
    THEN LET s == ParseRFC3339(event.Start.DateTime)
             e == ParseRFC3339(event.End.DateTime)
         IN  IF s.err THEN Skip("Unable to parse event DateTime")
             ELSE IF e.err THEN Skip("Unable to parse event End DateTime")
             ELSE [skip |-> "", startTime |-> s.t, endTime |-> e.t,
                   isAllDay |-> FALSE]
    ELSE Skip("No valid start time found for event")

\* The if / else-if / else at the head of the loop body: the start and end
\* instants and the all-day flag, or the diagnostic logged before `continue`.
Resolve(event) ==
    IF event.Start.DateTime # EmptyString
    THEN LET s == ParseRFC3339(event.Start.DateTime)
             e == ParseRFC3339(event.End.DateTime)
         IN  IF s.err THEN Skip("Unable to parse event DateTime")
             ELSE IF e.err THEN Skip("Unable to parse event End DateTime")
             ELSE [skip |-> "", startTime |-> s.t, endTime |-> e.t,
                   isAllDay |-> FALSE]
    ELSE IF event.Start.Date # EmptyString
    THEN LET s == ParseDate(event.Start.Date)
             e == ParseDate(event.End.Date)
         IN  IF s.err THEN Skip("Unable to parse event Start Date")
             ELSE IF e.err THEN Skip("Unable to parse event End Date")
             ELSE [skip |-> "", startTime |-> s.t, endTime |-> e.t,
                   isAllDay |-> TRUE]
    ELSE Skip("No valid start time found for event")

(***************************************************************************)
(* sendDiscordNotification                                                 *)
(***************************************************************************)
StatusOK == 200
StatusNoContent == 204

\* resp.StatusCode of an http.Post that returned no response (err != nil).
NoResponse == 0

\* The status test of sendDiscordNotification: src/main.go accepts 200 only,
\* src/unnamed/part_000 accepts 200 and 204.
StatusAccepted(b, status) ==
    IF b = "main.go"
    THEN status = StatusOK
    ELSE status = StatusOK \/ status = StatusNoContent

\* The error sendDiscordNotification returns ("" is nil) for the outcome of
\* http.Post: json.Marshal of a map[string]string cannot fail.
sendDiscordNotification(b, status) ==
    IF status = NoResponse THEN "transport error"
    ELSE IF ~StatusAccepted(b, status) THEN "failed to send notification"
    ELSE ""

(***************************************************************************)
(* The environment: the clock, the process environment, the calendar       *)
(***************************************************************************)
\* Readings of time.Now(): a leap day ahead, one second before a year ends,
\* exactly midnight at a month end, a UTC date behind the UTC+9 date, and the
\* end of a 28-day February.
Nows ==
    { Date(2024, 2, 28, 10, 0, 0, location),
      Date(2024, 12, 31, 23, 59, 59, location),
      Date(2025, 1, 31, 0, 0, 0, location),
      Date(2025, 3, 9, 20, 0, 0, UTC),
      Date(2025, 2, 28, 12, 0, 0, location) }

\* Values of GOOGLE_CREDENTIALS: unset, not JSON, JSON that is no service
\* account key, and a service account key.
Credentials == {"", "not json", "{}", "{service account}"}

Marker(dateTime, date) == [DateTime |-> dateTime, Date |-> date]
Event(summary, description, loc, start, end) ==
    [Summary |-> summary, Description |-> description, Location |-> loc,
     Start |-> start, End |-> end]

At(t, zone) == RFC3339String(civil(t, zone), zone)
Day(t) == DateString(civil(t, location))
Timed(t, zone, u) ==
    Event("Standup", "desc", "Office",
          Marker(At(t, zone), EmptyString), Marker(At(u, zone), EmptyString))
AllDay(t, u) ==
    Event("Holiday", "desc", "Office",
          Marker(EmptyString, Day(t)), Marker(EmptyString, Day(u)))

oneHour == secondsPerHour
oneDay == secondsPerDay
EST == 0 - 5 * oneHour
February30 == [text |-> "date", f |-> <<2025, 2, 30>>]
February30At10 ==
    [text |-> "rfc3339", f |-> <<2025, 2, 30, 10, 0, 0, location>>]

\* Events the calendar can return for a window that starts at w, in the order
\* of Events.List(...).OrderBy("startTime"); events the provider would not
\* produce (no marker, two markers, markers that do not parse) stand among
\* them.
Candidates(w) ==
    << Timed(w - 2 * oneHour, location, w + oneHour),
       AllDay(w - oneDay, w),
       Event("Both", "desc", "",
             Marker(At(w - oneHour, location), Day(w)),
             Marker(At(w + oneHour, location), Day(w + oneDay))),
       Timed(w - 1, location, w + oneHour),
       Timed(w, location, w + oneHour),
       Event("NoMarker", "desc", "Office",
             Marker(EmptyString, EmptyString), Marker(EmptyString, EmptyString)),
       Timed(w + 1, location, w + oneHour),
       Timed(w + 1, EST, w + 2 * oneHour),
       AllDay(w, w + oneDay),
       Event("Holiday", "other words", "Office",
             Marker(EmptyString, Day(w)), Marker(EmptyString, Day(w + oneDay))),
       Event("BadEndDate", "desc", "Office",
             Marker(EmptyString, Day(w)), Marker(EmptyString, Garbage)),
       Event("MixedDateFirst", "desc", "Office",
             Marker(EmptyString, Day(w)),
             Marker(At(w + 11 * oneHour, location), EmptyString)),
       Timed(w + 10 * oneHour + 30, location, w + 11 * oneHour + 59),
       Event("Standup", "", "Office",
             Marker(At(w + 10 * oneHour + 30, UTC), EmptyString),
             Marker(At(w + 11 * oneHour + 59, UTC), EmptyString)),
       Event("LongTrip", "desc", "",
             Marker(At(w + 10 * oneHour, location), EmptyString),
             Marker(At(w + 3 * oneDay, location), EmptyString)),
       Event("Both", "desc", "Office",
             Marker(At(w + 10 * oneHour, location), Day(w)),
             Marker(At(w + 11 * oneHour, location), Day(w + oneDay))),
       Event("BothBadDate", "desc", "Office",
             Marker(At(w + 10 * oneHour, location), Garbage),
             Marker(At(w + 11 * oneHour, location), Garbage)),
       Event("BadEnd", "desc", "Office",
             Marker(At(w + 10 * oneHour, location), EmptyString),
             Marker(Garbage, EmptyString)),
       Event("BadStart", "desc", "Office",
             Marker(Garbage, EmptyString),
             Marker(At(w + 11 * oneHour, location), EmptyString)),
       Event("MixedTimeFirst", "desc", "Office",
             Marker(At(w + 10 * oneHour, location), EmptyString),
             Marker(EmptyString, Day(w + oneDay))),
       Event("EndOnly", "desc", "Office",
             Marker(EmptyString, EmptyString),
             Marker(At(w + 11 * oneHour, location), EmptyString)),
       Event("DateInDateTime", "desc", "Office",
             Marker(Day(w), EmptyString), Marker(Day(w + oneDay), EmptyString)),
       Event("February30", "desc", "Office",
             Marker(EmptyString, February30), Marker(EmptyString, Day(w + oneDay))),
       Event("February30", "desc", "Office",
             Marker(February30At10, EmptyString),
             Marker(At(w + 11 * oneHour, location), EmptyString)),
       Timed(w + oneDay - 1, location, w + oneDay + oneHour),
       Timed(w + oneDay - 1, EST, w + oneDay + oneHour),
       Timed(w + oneDay, location, w + oneDay + oneHour),
       Timed(w + oneDay + 1, location, w + oneDay + oneHour),
       AllDay(w + oneDay, w + 2 * oneDay) >>

\* The strictly increasing index sequences of length at most k over 1..n.
RECURSIVE Increasing(_, _)
Increasing(n, k) ==
    IF k = 0 THEN {<<>>}
    ELSE LET shorter == Increasing(n, k - 1)
         IN  shorter \cup
             { Append(q, j) : <<q, j>> \in
                 { <<q, j>> \in shorter \X (1..n) :
                     Len(q) = k - 1 /\ (q = <<>> \/ q[Len(q)] < j) } }

\* events.Items: the lists of at most MaxEvents candidates, in start order.
EventLists(w) ==
    UNION { { [k \in 1..Len(q) |-> c[q[k]]] :
                q \in Increasing(Len(c), MaxEvents) } :
            c \in {Candidates(w)} }

(***************************************************************************)
(* main                                                                    *)
(***************************************************************************)
Builds == {"main.go", "part_000"}

\* A network call: the calendar list request or a webhook POST for event
\* number idx.  err is "pending" until the call returns.
ListCall(err) ==
    [kind |-> "Events.List", idx |-> 0, content |-> <<>>,
     status |-> NoResponse, err |-> err]
PostCall(idx, content) ==
    [kind |-> "http.Post", idx |-> idx, content |-> content,
     status |-> NoResponse, err |-> "pending"]

LogLine(idx, line) == [idx |-> idx, line |-> line]

\* log.Fatalf: the line is logged and the process exits.
Fatalf(line) ==
    /\ logs' = Append(logs, LogLine(0, line))
    /\ pc' = "fatal"

\* The head of the range loop: the next event, or the end of main.
Continue ==
    /\ i' = i + 1
    /\ pc' = IF i + 1 > Len(events) THEN "done" ELSE "loop"

Init ==
    /\ build \in Builds
    /\ pc = IF build = "main.go" THEN "godotenv.Load" ELSE "getCalendarService"
    /\ credentials = "unread"
    /\ now = 0
    /\ tomorrowStart = 0
    /\ tomorrowEnd = 0
    /\ events = <<>>
    /\ i = 0
    /\ calls = <<>>
    /\ logs = <<>>

\* src/main.go only: godotenv.Load(".env")
GodotenvLoad ==
    /\ pc = "godotenv.Load"
    /\ \/ pc' = "getCalendarService" /\ UNCHANGED logs
       \/ Fatalf("Error loading .env file")
    /\ UNCHANGED <<build, credentials, now, tomorrowStart, tomorrowEnd,
                   events, i, calls>>

AfterService == IF build = "main.go" THEN "time.LoadLocation" ELSE "time.Now"

\* GetCalendarService without the json.Unmarshal test of the credential.
GetCalendarServiceWithoutJSONTest ==
    /\ pc = "getCalendarService"
    /\ \E c \in Credentials :
         /\ credentials' = c
         /\ \/ c = "" /\ Fatalf("Unable to retrieve Calendar client: not set")
            \/ c = "{}"
               /\ Fatalf("Unable to retrieve Calendar client: unable to create")
            \/ c \in {"not json", "{service account}"}
               /\ pc' = AfterService /\ UNCHANGED logs
    /\ UNCHANGED <<build, now, tomorrowStart, tomorrowEnd, events, i, calls>>

\* getCalendarService and the test of its error in main.
GetCalendarService ==
    /\ pc = "getCalendarService"
    /\ \E c \in Credentials :
         /\ credentials' = c
         /\ \/ c = "" /\ Fatalf("Unable to retrieve Calendar client: not set")
            \/ c = "not json"
               /\ Fatalf("Unable to retrieve Calendar client: unable to parse")
            \/ c = "{}"
               /\ Fatalf("Unable to retrieve Calendar client: unable to create")
            \/ c = "{service account}" /\ pc' = AfterService /\ UNCHANGED logs
    /\ UNCHANGED <<build, now, tomorrowStart, tomorrowEnd, events, i, calls>>

\* src/main.go only: time.LoadLocation("Asia/Tokyo")
LoadLocation ==
    /\ pc = "time.LoadLocation"
    /\ \/ pc' = "time.Now" /\ UNCHANGED logs
       \/ Fatalf("Unable to load location")
    /\ UNCHANGED <<build, credentials, now, tomorrowStart, tomorrowEnd,
                   events, i, calls>>

\* now, tomorrowStart and tomorrowEnd
ComputeWindow ==
    /\ pc = "time.Now"
    /\ \E t \in Nows :
         /\ now' = t
         /\ tomorrowStart' = TomorrowStart(t)
         /\ tomorrowEnd' = TomorrowEnd(TomorrowStart(t))
    /\ pc' = "getEvents"
    /\ UNCHANGED <<build, credentials, events, i, calls, logs>>

\* getEvents and the test of its error in main.
GetEvents ==
    /\ pc = "getEvents"
    /\ \/ /\ calls' = Append(calls, ListCall("provider error"))
          /\ Fatalf("Unable to retrieve events")
          /\ UNCHANGED <<events, i>>
       \/ /\ calls' = Append(calls, ListCall(""))
          /\ \E items \in EventLists(tomorrowStart) :
               /\ events' = items
               /\ i' = 1
               /\ pc' = IF items = <<>> THEN "done" ELSE "loop"
          /\ UNCHANGED logs
    /\ UNCHANGED <<build, credentials, now, tomorrowStart, tomorrowEnd>>

\* Iterate with the POST started and not awaited (go sendDiscordNotification).
IterateWithoutWaiting ==
    /\ pc = "loop"
    /\ LET event == events[i]
           r == Resolve(event)
       IN  \/ /\ r.skip # ""
              /\ logs' = Append(logs, LogLine(i, r.skip))
              /\ UNCHANGED calls
           \/ /\ r.skip = ""
              /\ ~InWindow(r.startTime, tomorrowStart, tomorrowEnd)
              /\ UNCHANGED <<calls, logs>>
           \/ /\ r.skip = ""
              /\ InWindow(r.startTime, tomorrowStart, tomorrowEnd)
              /\ calls' = Append(calls,
                    PostCall(i, Message(event, r.isAllDay, r.startTime, r.endTime)))
              /\ UNCHANGED logs
    /\ Continue
    /\ UNCHANGED <<build, credentials, now, tomorrowStart, tomorrowEnd, events>>

\* The loop body for events[i], up to the point where http.Post is issued.
Iterate ==
    /\ pc = "loop"
    /\ LET event == events[i]
           r == Resolve(event)
       IN  \/ /\ r.skip # ""
              /\ logs' = Append(logs, LogLine(i, r.skip))
              /\ Continue
              /\ UNCHANGED calls
           \/ /\ r.skip = ""
              /\ ~InWindow(r.startTime, tomorrowStart, tomorrowEnd)
              /\ Continue
              /\ UNCHANGED <<calls, logs>>
           \/ /\ r.skip = ""
              /\ InWindow(r.startTime, tomorrowStart, tomorrowEnd)
              /\ calls' = Append(calls,
                    PostCall(i, Message(event, r.isAllDay, r.startTime, r.endTime)))
              /\ pc' = "http.Post"
              /\ UNCHANGED <<i, logs>>
    /\ UNCHANGED <<build, credentials, now, tomorrowStart, tomorrowEnd, events>>

\* What http.Post can come back with.
Statuses == {NoResponse, StatusOK, StatusNoContent, 500}

\* Webhook POSTs issued for event number k.
Posts(k) ==
    Cardinality({ n \in 1..Len(calls) :
                    calls[n].kind = "http.Post" /\ calls[n].idx = k })

\* PostReturns with a failed notification sent again.
PostReturnsRetrying ==
    /\ pc = "http.Post"
    /\ \E status \in Statuses :
         LET err == sendDiscordNotification(build, status)
         IN  /\ calls' = [calls EXCEPT ![Len(calls)] =
                            [@ EXCEPT !.status = status, !.err = err]]
             /\ logs' = Append(logs, LogLine(i,
                    IF err # "" THEN "Error sending Discord notification"
                    ELSE "Notification sent for event"))
             /\ IF err # "" /\ Posts(i) < 2
                THEN pc' = "loop" /\ UNCHANGED i
                ELSE Continue
    /\ UNCHANGED <<build, credentials, now, tomorrowStart, tomorrowEnd, events>>

\* http.Post returns, sendDiscordNotification returns, main logs the result.
PostReturns ==
    /\ pc = "http.Post"
    /\ \E status \in Statuses :
         LET err == sendDiscordNotification(build, status)
         IN  /\ calls' = [calls EXCEPT ![Len(calls)] =
                            [@ EXCEPT !.status = status, !.err = err]]
             /\ logs' = Append(logs, LogLine(i,
                    IF err # "" THEN "Error sending Discord notification"
                    ELSE "Notification sent for event"))
    /\ Continue
    /\ UNCHANGED <<build, credentials, now, tomorrowStart, tomorrowEnd, events>>

Next ==
    \/ GodotenvLoad
    \/ GetCalendarService
    \/ LoadLocation
    \/ ComputeWindow
    \/ GetEvents
    \/ Iterate
    \/ PostReturns

Spec == Init /\ [][Next]_vars

(***************************************************************************)
(* Reference definitions for the properties: the calendar computed another *)
(* way (days from a civil date by 400-year eras counted from 1 March), and  *)
(* what the program has decided about its events so far.                   *)
(***************************************************************************)
RefDays(y, m, d) ==
    LET yy  == IF m <= 2 THEN y - 1 ELSE y
        era == yy \div 400
        yoe == yy % 400
        mp  == IF m > 2 THEN m - 3 ELSE m + 9
        doy == ((153 * mp + 2) \div 5) + d - 1
        doe == yoe * 365 + (yoe \div 4) - (yoe \div 100) + doy
    IN  era * 146097 + doe - 719468

RefMonthLength(y, m) ==
    IF m \in {4, 6, 9, 11} THEN 30
    ELSE IF m # 2 THEN 31
    ELSE IF y % 400 = 0 \/ (y % 4 = 0 /\ y % 100 # 0) THEN 29
    ELSE 28

\* The date after <<y, m, d>>.
RefNextDate(y, m, d) ==
    IF d < RefMonthLength(y, m) THEN <<y, m, d + 1>>
    ELSE IF m < 12 THEN <<y, m + 1, 1>>
    ELSE <<y + 1, 1, 1>>

RefIsDate(y, m, d) == m \in 1..12 /\ d \in 1..RefMonthLength(y, m)

\* A string is a well-formed timestamp / a well-formed date.
RefIsStamp(s) ==
    /\ s.text = "rfc3339"
    /\ RefIsDate(s.f[1], s.f[2], s.f[3])
    /\ s.f[4] \in 0..23 /\ s.f[5] \in 0..59 /\ s.f[6] \in 0..59
RefIsDay(s) == s.text = "date" /\ RefIsDate(s.f[1], s.f[2], s.f[3])

\* The instant a well-formed timestamp names: its fields are the civil time
\* at its own zone offset f[7].
RefInstant(s) ==
    RefDays(s.f[1], s.f[2], s.f[3]) * 86400 + s.f[4] * 3600 + s.f[5] * 60
    + s.f[6] - s.f[7]

\* Midnight of a well-formed date, at a zone offset.
RefMidnight(s, zone) == RefDays(s.f[1], s.f[2], s.f[3]) * 86400 - zone

\* The loop has taken its decision about event number k.
Decided(k) == k < i \/ (k = i /\ pc = "http.Post")

Fetched == pc \in {"loop", "http.Post", "done"}

StrictlyInside(t) == tomorrowStart < t /\ t < tomorrowStart + 86400

\* Event e is read as a timed event / as an all-day event.
ReadAsTimed(e) ==
    /\ e.Start.DateTime # EmptyString
    /\ RefIsStamp(e.Start.DateTime) /\ RefIsStamp(e.End.DateTime)
ReadAsAllDay(e) ==
    /\ e.Start.DateTime = EmptyString
    /\ RefIsDay(e.Start.Date) /\ RefIsDay(e.End.Date)

\* Event e matches the window.
Matches(e) ==
    \/ ReadAsTimed(e) /\ StrictlyInside(RefInstant(e.Start.DateTime))
    \/ ReadAsAllDay(e) /\ StrictlyInside(RefMidnight(e.Start.Date, 0))

(***************************************************************************)
(* Properties                                                              *)
(***************************************************************************)

\* C1: an event whose start and end are parsable timestamps is notified if
\* and only if windowStart < start < windowEnd, both strict, whatever its
\* end: a start equal to windowStart or to windowEnd is never notified.
C1_TimedNotifiedIffStrictlyInside ==
    Fetched =>
      \A k \in 1..Len(events) :
        (Decided(k) /\ ReadAsTimed(events[k])) =>
          LET start == RefInstant(events[k].Start.DateTime)
          IN  /\ Posts(k) >= 1 <=> (tomorrowStart < start /\ start < tomorrowEnd)
              /\ start = tomorrowStart => Posts(k) = 0
              /\ start = tomorrowEnd => Posts(k) = 0

\* A finished run that left out an event starting exactly at windowStart and
\* one starting exactly at windowEnd.
C1_Witness ==
    /\ pc = "done" /\ Len(events) = 2
    /\ ReadAsTimed(events[1]) /\ ReadAsTimed(events[2])
    /\ RefInstant(events[1].Start.DateTime) = tomorrowStart
    /\ RefInstant(events[2].Start.DateTime) = tomorrowEnd
    /\ calls = <<ListCall("")>>

\* C2: an event read by its date-only markers is notified if and only if
\* midnight UTC of its start date (how the program parses it) lies strictly
\* inside the window, which is so exactly when the start date is the target
\* day, the day that starts at windowStart in UTC+9.
C2_AllDayNotifiedIffTargetDay ==
    Fetched =>
      \A k \in 1..Len(events) :
        (Decided(k) /\ ReadAsAllDay(events[k])) =>
          /\ Posts(k) >= 1 <=>
               StrictlyInside(RefMidnight(events[k].Start.Date, 0))
          /\ Posts(k) >= 1 <=>
               RefMidnight(events[k].Start.Date, location) = tomorrowStart

\* A finished run with an all-day event of the target day, notified, and an
\* all-day event of the day after, not notified.
C2_Witness ==
    /\ pc = "done" /\ Len(events) = 2
    /\ ReadAsAllDay(events[1]) /\ ReadAsAllDay(events[2])
    /\ RefMidnight(events[1].Start.Date, location) = tomorrowStart
    /\ RefMidnight(events[2].Start.Date, location) = tomorrowEnd
    /\ Posts(1) = 1 /\ Posts(2) = 0

\* C3: sendDiscordNotification returns nil if and only if the response status
\* is 200 or 204; any other status and any transport failure is an error,
\* and the run goes on after it.
C3_SuccessIff200Or204 ==
    \A n \in 1..Len(calls) :
      (calls[n].kind = "http.Post" /\ calls[n].err # "pending") =>
        /\ calls[n].err = "" <=> calls[n].status \in {200, 204}
        /\ pc # "fatal"

\* C4: each fetched event gets exactly one POST once the loop has decided it
\* and it matches the window, and none otherwise, whatever came back for the
\* POSTs before it; a failed POST is not retried and the loop reaches the end.
C4_OnePostPerMatchingEvent ==
    Fetched =>
      /\ \A k \in 1..Len(events) :
           Posts(k) = IF Decided(k) /\ Matches(events[k]) THEN 1 ELSE 0
      /\ pc = "done" <=> i = Len(events) + 1

\* A finished run whose first POST failed and whose second event was
\* notified all the same.
C4_Witness ==
    /\ pc = "done" /\ Len(events) = 2 /\ Len(calls) = 3
    /\ calls[2].idx = 1 /\ calls[2].err # ""
    /\ calls[3].idx = 2 /\ calls[3].err = ""

\* C5: a fatal setup error ends the run before any later network call: with
\* the credential unset or not JSON no call at all is made, and when the
\* list request fails no event is processed and no POST is issued.
C5_FatalSetupBeforeNetwork ==
    /\ credentials \in {"", "not json"} => (pc = "fatal" /\ calls = <<>>)
    /\ credentials # "{service account}" => calls = <<>>
    /\ (calls # <<>> /\ calls[1].err # "") =>
         /\ pc = "fatal" /\ Len(calls) = 1
         /\ events = <<>> /\ i = 0
         /\ \A n \in 1..Len(logs) : logs[n].idx = 0

\* The run stopped on a credential that is not JSON; the run stopped on a
\* failed list request.
C5_Witness ==
    \/ credentials = "not json" /\ pc = "fatal"
    \/ calls = <<ListCall("provider error")>> /\ pc = "fatal"

\* Event e has no marker on its start or none on its end.
LacksMarkers(e) ==
    \/ e.Start.DateTime = EmptyString /\ e.Start.Date = EmptyString
    \/ e.End.DateTime = EmptyString /\ e.End.Date = EmptyString

\* Start and end of e carry different marker forms.
MixedMarkers(e) ==
    \/ /\ e.Start.DateTime # EmptyString /\ e.Start.Date = EmptyString
       /\ e.End.DateTime = EmptyString /\ e.End.Date # EmptyString
    \/ /\ e.Start.DateTime = EmptyString /\ e.Start.Date # EmptyString
       /\ e.End.DateTime # EmptyString /\ e.End.Date = EmptyString

\* The marker form the program reads (the timestamp when the start has one,
\* else the date) does not parse on the start or on the end of e.
UnparsableMarker(e) ==
    \/ /\ e.Start.DateTime # EmptyString
       /\ ~(RefIsStamp(e.Start.DateTime) /\ RefIsStamp(e.End.DateTime))
    \/ /\ e.Start.DateTime = EmptyString /\ e.Start.Date # EmptyString
       /\ ~(RefIsDay(e.Start.Date) /\ RefIsDay(e.End.Date))

Diagnostics ==
    { "Unable to parse event DateTime", "Unable to parse event End DateTime",
      "Unable to parse event Start Date", "Unable to parse event End Date",
      "No valid start time found for event" }

\* C6: an event without markers, with different marker forms on start and
\* end, or whose marker does not parse is skipped: one diagnostic is logged
\* for it, it is never notified, the run is not ended by it and the loop goes
\* on to the events after it.
C6_MalformedEventSkipped ==
    Fetched =>
      /\ \A k \in 1..Len(events) :
           (LacksMarkers(events[k]) \/ MixedMarkers(events[k])
              \/ UnparsableMarker(events[k])) =>
             /\ Posts(k) = 0
             /\ Decided(k) =>
                  Cardinality({ n \in 1..Len(logs) :
                                  logs[n].idx = k
                                  /\ logs[n].line \in Diagnostics }) = 1
      /\ pc = "done" <=> i = Len(events) + 1

\* A finished run that skipped an event whose end does not parse and then
\* notified the next event.
C6_Witness ==
    /\ pc = "done" /\ Len(events) = 2
    /\ events[1].Summary = "BadEnd" /\ UnparsableMarker(events[1])
    /\ Posts(1) = 0 /\ Posts(2) = 1
    /\ logs[1] = LogLine(1, "Unable to parse event End DateTime")

BothStartMarkers(e) ==
    e.Start.DateTime # EmptyString /\ e.Start.Date # EmptyString

\* C7, as stated: an event whose start carries both a timestamp marker and a
\* date-only marker is never notified.
C7_BothMarkersNeverNotified ==
    Fetched =>
      \A k \in 1..Len(events) : BothStartMarkers(events[k]) => Posts(k) = 0

\* C7, amended: an event whose start carries both markers is read as a timed
\* event and its date-only marker is ignored: it is notified if and only if
\* its start and end timestamps parse and the start timestamp lies strictly
\* inside the window, and the message then carries the start and end times.
C7_BothMarkersReadAsTimed ==
    Fetched =>
      /\ \A k \in 1..Len(events) :
           (Decided(k) /\ BothStartMarkers(events[k])) =>
             (Posts(k) = 1 <=>
                /\ RefIsStamp(events[k].Start.DateTime)
                /\ RefIsStamp(events[k].End.DateTime)
                /\ StrictlyInside(RefInstant(events[k].Start.DateTime)))
      /\ \A n \in 1..Len(calls) :
           (calls[n].kind = "http.Post"
              /\ BothStartMarkers(events[calls[n].idx])) =>
             /\ Len(calls[n].content) = 5
             /\ calls[n].content[4].label = "Start: "

\* A finished run with two events that carry both markers and the target
\* day as date: the one whose timestamp is before the window was left out,
\* the one whose timestamp is inside was notified.
C7_Witness ==
    /\ pc = "done" /\ Len(events) = 2
    /\ BothStartMarkers(events[1]) /\ BothStartMarkers(events[2])
    /\ RefMidnight(events[1].Start.Date, location) = tomorrowStart
    /\ RefMidnight(events[2].Start.Date, location) = tomorrowStart
    /\ Posts(1) = 0 /\ Posts(2) = 1

\* The instant named by the printed fields <<year, month, day, hour, minute>>
\* read as a time of day in UTC+9.
RefPrinted(p) ==
    RefDays(p[1], p[2], p[3]) * 86400 + p[4] * 3600 + p[5] * 60 - 9 * 3600

\* A printed time is instant t in UTC+9 cut to the minute.
PrintsToTheMinute(p, t) ==
    /\ Len(p) = 5
    /\ RefIsDate(p[1], p[2], p[3]) /\ p[4] \in 0..23 /\ p[5] \in 0..59
    /\ RefPrinted(p) <= t /\ t < RefPrinted(p) + 60

\* What the message may depend on.
MessageInputs(e) ==
    IF e.Start.DateTime = EmptyString
    THEN <<e.Summary, e.Location, TRUE,
           RefMidnight(e.Start.Date, 0), RefMidnight(e.End.Date, 0)>>
    ELSE <<e.Summary, e.Location, FALSE,
           RefInstant(e.Start.DateTime), RefInstant(e.End.DateTime)>>

\* C8: every message sent starts with the mention, the title line and the
\* location line (there even when the location is empty); for an all-day
\* event it ends with the all-day marker and has no time line, for a timed
\* event it ends with the start and the end printed in UTC+9 to the minute
\* and has no all-day marker; the description is in no message; and two
\* events equal in title, location, all-day flag, start and end get the same
\* message.
C8_MessageFormat ==
    /\ \A n \in 1..Len(calls) :
         calls[n].kind = "http.Post" =>
           LET e == events[calls[n].idx]
               m == calls[n].content
           IN  /\ Len(m) >= 4
               /\ m[1] = Line("@here", "", <<>>)
               /\ m[2] = Line("Title: ", e.Summary, <<>>)
               /\ m[3] = Line("Location: ", e.Location, <<>>)
               /\ e.Start.DateTime = EmptyString =>
                    /\ Len(m) = 4
                    /\ m[4] = Line("AllDay", "", <<>>)
               /\ e.Start.DateTime # EmptyString =>
                    /\ Len(m) = 5
                    /\ m[4].label = "Start: " /\ m[4].str = ""
                    /\ PrintsToTheMinute(m[4].time,
                                         RefInstant(e.Start.DateTime))
                    /\ m[5].label = "End: " /\ m[5].str = ""
                    /\ PrintsToTheMinute(m[5].time, RefInstant(e.End.DateTime))
               /\ e.Description \notin {"", e.Summary, e.Location} =>
                    \A l \in 1..Len(m) : m[l].str # e.Description
    /\ \A n1, n2 \in 1..Len(calls) :
         (/\ calls[n1].kind = "http.Post" /\ calls[n2].kind = "http.Post"
          /\ MessageInputs(events[calls[n1].idx])
               = MessageInputs(events[calls[n2].idx])) =>
           calls[n1].content = calls[n2].content

\* Two timed events that differ in description and in the zone their
\* timestamps are written in, with a start 30 seconds past the minute and an
\* empty location on none of them, both notified.
C8_Witness ==
    /\ Len(calls) = 3
    /\ events[1] # events[2]
    /\ events[1].Description # events[2].Description
    /\ events[1].Start.DateTime # events[2].Start.DateTime
    /\ ReadAsTimed(events[1])
    /\ RefInstant(events[1].Start.DateTime) % 60 = 30
    /\ MessageInputs(events[1]) = MessageInputs(events[2])
    /\ calls[2].content = calls[3].content

\* C9: the run is sequential and in order: the credential is loaded before
\* the one list request, which is the first network call; POSTs are issued
\* in the order of the fetched list, for no event the loop has not reached;
\* a POST is awaited before anything else happens; and the run ends after
\* the last event with nothing left to do.
C9_SequentialInFetchOrder ==
    /\ calls # <<>> =>
         /\ credentials = "{service account}"
         /\ calls[1].kind = "Events.List"
         /\ \A n \in 2..Len(calls) : calls[n].kind = "http.Post"
    /\ \A n \in 2..Len(calls) :
         /\ calls[n].idx \in 1..Len(events)
         /\ calls[n].idx <= i
         /\ n > 2 => calls[n - 1].idx < calls[n].idx
         /\ calls[n].err = "pending" =>
              (n = Len(calls) /\ pc = "http.Post" /\ calls[n].idx = i)
    /\ pc = "http.Post" => calls[Len(calls)].err = "pending"
    /\ \A n \in 1..Len(logs) :
         /\ logs[n].idx <= i
         /\ n > 1 => logs[n - 1].idx <= logs[n].idx
    /\ pc = "loop" => i \in 1..Len(events)
    /\ pc = "done" => (i = Len(events) + 1 /\ calls[1].err = "")
    /\ pc \in {"done", "fatal"} => ~ENABLED Next

\* A finished run that notified two events, the first before the second.
C9_Witness ==
    /\ pc = "done"
    /\ Len(calls) = 3
    /\ calls[2].idx = 1 /\ calls[3].idx = 2

\* The window has been computed.
WindowSet == pc \in {"getEvents", "loop", "http.Post", "done"}

\* C10: the window belongs to the instant read at the start of the run:
\* windowStart is 00:00 UTC+9 of the day after the UTC+9 date of that
\* instant, across month and year ends too; it is later than the instant and
\* at most 24 hours later; windowEnd is windowStart plus 24 hours; and no
\* step after its computation changes it.
C10_WindowIsTomorrow ==
    /\ [](WindowSet =>
           LET n == civil(now, location)
               w == civil(tomorrowStart, location)
           IN  /\ RefDays(n.year, n.month, n.day) * 86400 - 9 * 3600 <= now
               /\ now < RefDays(n.year, n.month, n.day) * 86400 + 15 * 3600
               /\ RefDays(w.year, w.month, w.day) * 86400 - 9 * 3600
                    = tomorrowStart
               /\ <<w.year, w.month, w.day>>
                    = RefNextDate(n.year, n.month, n.day)
               /\ now < tomorrowStart
               /\ tomorrowStart <= now + 86400
               /\ tomorrowEnd = tomorrowStart + 86400)
    /\ [][WindowSet => UNCHANGED <<now, tomorrowStart, tomorrowEnd>>]_vars

\* The instant read is the last second of a year and the loop is at work.
C10_Witness ==
    /\ pc = "loop"
    /\ civil(now, location) =
         [year |-> 2024, month |-> 12, day |-> 31,
          hour |-> 23, min |-> 59, sec |-> 59]
    /\ tomorrowStart = now + 1

====
